---- MODULE Spec2Model ----
(***************************************************************************)
(* State-machine model of the domain layer of src/index.js: the product    *)
(* catalog (ProductRepository), the cart (CartRepository) and the use case *)
(* that composes them (ShoppingCartUseCase).                               *)
(*                                                                         *)
(* JavaScript objects are modelled by reference: CartItem objects live in  *)
(* `cells`, arrays of CartItem references live in `arrays`, and            *)
(* CartRepository.items is a reference into `arrays`.  Array.push mutates  *)
(* the referenced array in place; Array.filter and the literal [] allocate *)
(* a new array.  Product objects are immutable after construction and the  *)
(* code never compares them by reference, so they are values; title and    *)
(* image, which no operation of this layer reads, are left out.  Prices    *)
(* are whole numbers of the minor currency unit, so arithmetic is exact.   *)
(***************************************************************************)
EXTENDS Integers, Sequences, FiniteSets, TLC

\* ---- bounds of the model ------------------------------------------------
MaxQty == 2          \* largest quantity a cart line is driven to
MaxDelta == 2        \* changeQuantity deltas range over -MaxDelta..MaxDelta
MaxInFlight == 2     \* getProducts calls that may be in flight at once

\* ids a caller may pass; 3 is in no payload of JsonBodies
CallerIds == {1, 2, 3}
Deltas == (0 - MaxDelta)..MaxDelta

\* ---- the remote source --------------------------------------------------
\* One JSON record of the remote list; `isNull` marks a null array element,
\* on which the callback of data.map throws.
Rec(i, p) == [isNull |-> FALSE, id |-> i, price |-> p]
NullRec == [isNull |-> TRUE, id |-> 0, price |-> 0]

\* Bodies response.json() can resolve to: isArray = FALSE is a JSON value
\* without a map method (an error object, say).
JsonBodies ==
    { [isArray |-> TRUE,  elems |-> << Rec(1, 10), Rec(2, 5) >>],
      [isArray |-> TRUE,  elems |-> << Rec(2, 7) >>],
      [isArray |-> TRUE,  elems |-> << Rec(1, 10), NullRec >>],
      [isArray |-> FALSE, elems |-> << >>] }

\* Bodies of a remote source that lists three products, so that a cart can
\* hold three lines
LongBodies ==
    { [isArray |-> TRUE,  elems |-> << Rec(1, 10), Rec(2, 5), Rec(3, 7) >>],
      [isArray |-> FALSE, elems |-> << >>] }

\* ---- Product and CartItem -----------------------------------------------
\* new Product(p.id, p.title, p.price, p.image)
Product(id, price) == [id |-> id, price |-> price]

\* the value `undefined` that Array.find returns when nothing matches
Undefined == [id |-> 0, price |-> 0]

\* new CartItem(product, quantity = 1)
CartItem(product) == [product |-> product, quantity |-> 1]

\* CartItem.total
ItemTotal(item) == item.product.price * item.quantity

VARIABLES
    products,    \* ProductRepository.products: sequence of Product
    cells,       \* heap of CartItem objects: reference -> CartItem
    arrays,      \* heap of arrays: reference -> sequence of CartItem references
    items,       \* CartRepository.items: reference into arrays
    view,        \* array a getCartItems() call returned to the caller, 0 if none
    order,       \* { items, total } a checkout() call returned to the caller
    retain,      \* what the caller keeps of what earlier calls returned to it:
                 \* a subset of {"view", "order"}
    calls,       \* the getProducts() calls in flight, oldest first
    fetched,     \* history: whether a fetchAll() call has been fulfilled
    lastOp       \* the operation that produced the current state, its
                 \* arguments and, for a getProducts() call that settled, its
                 \* outcome

vars == << products, cells, arrays, items, view, order, retain, calls, fetched, lastOp >>

\* ---- heap helpers -------------------------------------------------------
\* the smallest reference not in use in heap h
FreshRef(h) ==
    CHOOSE r \in 1..(Cardinality(DOMAIN h) + 1) :
        /\ r \notin DOMAIN h
        /\ \A s \in 1..(r - 1) : s \in DOMAIN h

Range(s) == { s[i] : i \in 1..Len(s) }

\* the cart repository as one value: the object and the heap it points into
Repo == [cells |-> cells, arrays |-> arrays, items |-> items]

\* the sequence of CartItem values an array reference denotes
Lines(h, a) == [ i \in 1..Len(h.arrays[a]) |-> h.cells[h.arrays[a][i]] ]

\* s without the elements that occur in seen or earlier in s
RECURSIVE Dedupe(_, _)
Dedupe(s, seen) ==
    IF s = << >> THEN << >>
    ELSE IF Head(s) \in seen THEN Dedupe(Tail(s), seen)
    ELSE << Head(s) >> \o Dedupe(Tail(s), seen \cup {Head(s)})

\* the position of x in s
IndexOf(s, x) == CHOOSE i \in 1..Len(s) : s[i] = x

RECURSIVE Flatten(_)
Flatten(ss) == IF ss = << >> THEN << >> ELSE Head(ss) \o Flatten(Tail(ss))

\* The heap as the program can see it from the cart, the handed-out view v
\* and the returned order o: objects reachable from none of them are
\* reclaimed (the garbage collector) and the others are numbered in the
\* order in which the three roots reach them.  A JavaScript program cannot
\* observe an object's address, only whether two references are the same
\* object, and the numbering keeps exactly that.
Collect(h, v, o) ==
    LET roots == Dedupe(<< h.items, v, o.items >>, {0})
        reached == Dedupe(Flatten([ i \in 1..Len(roots) |-> h.arrays[roots[i]] ]), {})
        ref(a) == IF a = 0 THEN 0 ELSE IndexOf(roots, a)
    IN  [ cells  |-> [ i \in 1..Len(reached) |-> h.cells[reached[i]] ],
          arrays |-> [ i \in 1..Len(roots) |->
                        [ j \in 1..Len(h.arrays[roots[i]]) |->
                            IndexOf(reached, h.arrays[roots[i]][j]) ] ],
          items  |-> ref(h.items),
          view   |-> ref(v),
          order  |-> [o EXCEPT !.items = ref(o.items)] ]

\* ---- ProductRepository --------------------------------------------------
\* this.products.find(p => p.id === id)
RECURSIVE FindProduct(_, _, _)
FindProduct(prods, id, i) ==
    IF i > Len(prods) THEN Undefined
    ELSE IF prods[i].id = id THEN prods[i]
    ELSE FindProduct(prods, id, i + 1)

getById(prods, id) == FindProduct(prods, id, 1)

\* ---- CartRepository -----------------------------------------------------
\* this.items.find(item => item.product.id === productId): the reference of
\* the first match, 0 for undefined
RECURSIVE FindItem(_, _, _)
FindItem(h, productId, i) ==
    IF i > Len(h.arrays[h.items]) THEN 0
    ELSE IF h.cells[h.arrays[h.items][i]].product.id = productId
         THEN h.arrays[h.items][i]
    ELSE FindItem(h, productId, i + 1)

\* addItem without the lookup of an existing line: always push
addItem_AlwaysPush(h, c) == [h EXCEPT !.arrays[h.items] = Append(@, c)]

\* addItem that also points the existing line at the new CartItem's product
addItem_SwapProduct(h, c) ==
    LET existingItem == FindItem(h, h.cells[c].product.id, 1)
    IN  IF existingItem # 0
        THEN [h EXCEPT !.cells[existingItem].quantity = @ + 1,
                       !.cells[existingItem].product = h.cells[c].product]
        ELSE [h EXCEPT !.arrays[h.items] = Append(@, c)]

\* addItem that appends by building a new array
\* (this.items = [...this.items, cartItem]) instead of push
addItem_Copies(h, c) ==
    LET existingItem == FindItem(h, h.cells[c].product.id, 1)
        n == FreshRef(h.arrays)
    IN  IF existingItem # 0
        THEN [h EXCEPT !.cells[existingItem].quantity = @ + 1]
        ELSE [h EXCEPT !.arrays = h.arrays @@ (n :> Append(h.arrays[h.items], c)),
                       !.items = n]

\* addItem(cartItem), cartItem being the reference c
addItem(h, c) ==
    LET existingItem == FindItem(h, h.cells[c].product.id, 1)
    IN  IF existingItem # 0
        THEN [h EXCEPT !.cells[existingItem].quantity = @ + 1]
        ELSE [h EXCEPT !.arrays[h.items] = Append(@, c)]

\* this.items.filter(item => item.product.id !== productId)
RECURSIVE FilterOut(_, _, _)
FilterOut(h, arr, productId) ==
    IF arr = << >> THEN << >>
    ELSE IF h.cells[Head(arr)].product.id # productId
         THEN << Head(arr) >> \o FilterOut(h, Tail(arr), productId)
    ELSE FilterOut(h, Tail(arr), productId)

\* removeItem with the filter predicate inverted (=== for !==)
removeItem_Inverted(h, productId) ==
    LET n == FreshRef(h.arrays)
        kept == SelectSeq(h.arrays[h.items], LAMBDA c : h.cells[c].product.id = productId)
    IN  [h EXCEPT !.arrays = h.arrays @@ (n :> kept), !.items = n]

\* removeItem that moves the last line into the place of the removed one
\* (items[index] = items.pop()) instead of filtering
removeItem_SwapRemove(h, productId) ==
    LET n == FreshRef(h.arrays)
        arr == h.arrays[h.items]
        hits == { i \in 1..Len(arr) : h.cells[arr[i]].product.id = productId }
        p == CHOOSE i \in hits : \A j \in hits : i <= j
        swapped == [ i \in 1..(Len(arr) - 1) |-> IF i = p THEN arr[Len(arr)] ELSE arr[i] ]
    IN  [h EXCEPT !.arrays = h.arrays @@ (n :> IF hits = {} THEN arr ELSE swapped),
                  !.items = n]

\* removeItem(productId): filter builds a new array, which replaces items
removeItem(h, productId) ==
    LET n == FreshRef(h.arrays)
    IN  [h EXCEPT !.arrays = h.arrays @@ (n :> FilterOut(h, h.arrays[h.items], productId)),
                  !.items = n]

\* updateQuantity that never lets a quantity fall below 1
\* (item.quantity = Math.max(1, item.quantity + delta)) and removes nothing
updateQuantity_FloorsAtOne(h, productId, delta) ==
    LET item == FindItem(h, productId, 1)
    IN  IF item # 0
        THEN [h EXCEPT !.cells[item].quantity = IF @ + delta < 1 THEN 1 ELSE @ + delta]
        ELSE h

\* updateQuantity that removes the line only below zero (< for <=)
updateQuantity_KeepsZero(h, productId, delta) ==
    LET item == FindItem(h, productId, 1)
    IN  IF item # 0
        THEN LET h1 == [h EXCEPT !.cells[item].quantity = @ + delta]
             IN  IF h1.cells[item].quantity < 0
                 THEN removeItem(h1, productId)
                 ELSE h1
        ELSE h

\* updateQuantity(productId, delta)
updateQuantity(h, productId, delta) ==
    LET item == FindItem(h, productId, 1)
    IN  IF item # 0
        THEN LET h1 == [h EXCEPT !.cells[item].quantity = @ + delta]
             IN  IF h1.cells[item].quantity <= 0
                 THEN removeItem(h1, productId)
                 ELSE h1
        ELSE h

\* getItems(): the array itself, not a copy
getItems(h) == h.items

\* getTotal(): this.items.reduce((sum, item) => sum + item.total, 0)
RECURSIVE ReduceTotal(_, _, _)
ReduceTotal(h, arr, sum) ==
    IF arr = << >> THEN sum
    ELSE ReduceTotal(h, Tail(arr), sum + ItemTotal(h.cells[Head(arr)]))

getTotal(h) == ReduceTotal(h, h.arrays[h.items], 0)

\* getItemCount that counts lines instead of units
getItemCount_Lines(h) == Len(h.arrays[h.items])

\* getItemCount(): this.items.reduce((count, item) => count + item.quantity, 0)
RECURSIVE ReduceCount(_, _, _)
ReduceCount(h, arr, count) ==
    IF arr = << >> THEN count
    ELSE ReduceCount(h, Tail(arr), count + h.cells[Head(arr)].quantity)

getItemCount(h) == ReduceCount(h, h.arrays[h.items], 0)

\* clear that empties the array in place (this.items.length = 0)
clear_InPlace(h) == [h EXCEPT !.arrays[h.items] = << >>]

\* clear(): this.items = []
clear(h) ==
    LET n == FreshRef(h.arrays)
    IN  [h EXCEPT !.arrays = h.arrays @@ (n :> << >>), !.items = n]

\* ---- ShoppingCartUseCase ------------------------------------------------
\* addToCart without the test of the lookup's result
addToCart_Unchecked(prods, h, productId) ==
    LET product == getById(prods, productId)
        c == FreshRef(h.cells)
    IN  addItem([h EXCEPT !.cells = h.cells @@ (c :> CartItem(product))], c)

\* addToCart(productId)
addToCart(prods, h, productId) ==
    LET product == getById(prods, productId)
    IN  IF product # Undefined
        THEN LET c == FreshRef(h.cells)
             IN  addItem([h EXCEPT !.cells = h.cells @@ (c :> CartItem(product))], c)
        ELSE h

\* removeFromCart(productId)
removeFromCart(h, productId) == removeItem(h, productId)

\* changeQuantity(productId, delta)
changeQuantity(h, productId, delta) == updateQuantity(h, productId, delta)

\* checkout that clears the cart before it reads the total
checkout_ClearsFirst(h) ==
    LET itemsRef == getItems(h)
        total == getTotal(clear(h))
    IN  [ repo |-> clear(h), result |-> [items |-> itemsRef, total |-> total] ]

\* checkout(): the repository afterwards and the returned { items, total }
checkout(h) ==
    LET itemsRef == getItems(h)
        total == getTotal(h)
    IN  [ repo |-> clear(h), result |-> [items |-> itemsRef, total |-> total] ]

\* ---- ShoppingCartUI.checkout ------------------------------------------------
\* the handler without the test of items.length: it always opens the page
uiCheckout_NoGuard(h) ==
    LET r == checkout(h)
    IN  [ repo |-> r.repo, result |-> r.result, opened |-> TRUE ]

\* the click handler of the checkout button: it takes { items, total } from
\* the use case, and alerts and returns when items.length === 0; otherwise
\* it constructs a CheckoutPage(items, total). opened: a page was built.
uiCheckout(h) ==
    LET r == checkout(h)
    IN  [ repo |-> r.repo, result |-> r.result,
          opened |-> ~(Len(h.arrays[r.result.items]) = 0) ]

\* ---- fetchAll, by its suspension points -----------------------------------
\* A promise's state: pending, fulfilled with a value, rejected with an error
Pending == [status |-> "pending", error |-> "none", value |-> << >>]
Fulfilled(v) == [status |-> "fulfilled", error |-> "none", value |-> v]
Rejected(e) == [status |-> "rejected", error |-> e, value |-> << >>]

\* data.map(p => new Product(p.id, p.title, p.price, p.image));
\* reading p.id of a null element throws a TypeError and ends the map
RECURSIVE MapProducts(_)
MapProducts(elems) ==
    IF elems = << >> THEN [threw |-> FALSE, list |-> << >>]
    ELSE IF Head(elems).isNull THEN [threw |-> TRUE, list |-> << >>]
    ELSE LET rest == MapProducts(Tail(elems))
         IN  IF rest.threw THEN rest
             ELSE [threw |-> FALSE,
                   list |-> << Product(Head(elems).id, Head(elems).price) >> \o rest.list]

\* a catch block that logs and returns the current list instead of throwing
fetchAllCatch_Swallow(prods, error) == [products |-> prods, promise |-> Fulfilled(prods)]

\* the catch block: console.error, then throw error; this.products untouched
fetchAllCatch(prods, error) == [products |-> prods, promise |-> Rejected(error)]

\* the products mapped before the first null element
RECURSIVE MappedPrefix(_)
MappedPrefix(elems) ==
    IF elems = << >> \/ Head(elems).isNull THEN << >>
    ELSE << Product(Head(elems).id, Head(elems).price) >> \o MappedPrefix(Tail(elems))

\* fetchAll that empties this.products and pushes each product as it is mapped
fetchAllData_Incremental(prods, data) ==
    IF ~data.isArray THEN fetchAllCatch(prods, "TypeError")
    ELSE LET mapped == MapProducts(data.elems)
         IN  IF mapped.threw
             THEN [products |-> MappedPrefix(data.elems), promise |-> Rejected("TypeError")]
             ELSE [products |-> mapped.list, promise |-> Fulfilled(mapped.list)]

\* fetchAll that appends the mapped products to this.products
fetchAllData_Append(prods, data) ==
    IF ~data.isArray THEN fetchAllCatch(prods, "TypeError")
    ELSE LET mapped == MapProducts(data.elems)
         IN  IF mapped.threw THEN fetchAllCatch(prods, "TypeError")
             ELSE [products |-> prods \o mapped.list, promise |-> Fulfilled(prods \o mapped.list)]

\* the rest of the try block once response.json() has resolved to data:
\* the map, the assignment to this.products and the return
fetchAllData(prods, data) ==
    IF ~data.isArray THEN fetchAllCatch(prods, "TypeError")
    ELSE LET mapped == MapProducts(data.elems)
         IN  IF mapped.threw THEN fetchAllCatch(prods, "TypeError")
             ELSE [products |-> mapped.list, promise |-> Fulfilled(mapped.list)]

\* getProducts(): return await this.productRepository.fetchAll()
getProducts(fetchAllPromise) == fetchAllPromise

\* a getProducts() call: where it is suspended, how many remote retrievals
\* it has issued, the promise of its fetchAll() and, as history, whether a
\* call started after it replaced the catalog while its fetchAll was suspended
Call(phase, requests) ==
    [phase |-> phase, requests |-> requests, overtaken |-> FALSE, fetchAll |-> Pending]

\* what is known of a call at one of its continuations: the promises of
\* fetchAll() and of getProducts()
Settled(call, fetchAllPromise, getProductsPromise) ==
    [requests |-> call.requests, overtaken |-> call.overtaken,
     fetchAll |-> fetchAllPromise, getProducts |-> getProductsPromise]

NoneSettled ==
    [requests |-> 0, overtaken |-> FALSE, fetchAll |-> Pending, getProducts |-> Pending]

\* sequence s without its k-th element
Without(s, k) == [ i \in 1..(Len(s) - 1) |-> IF i < k THEN s[i] ELSE s[i + 1] ]

\* the calls once fetchAll of call k has settled with promise: getProducts of
\* call k has still to resume from its await; nothing is cancelled; the
\* calls started before k whose fetchAll is still suspended note a
\* replacement by k
StillInFlight(s, k, promise) ==
    [ i \in 1..Len(s) |->
        IF i = k THEN [s[i] EXCEPT !.phase = "returning", !.fetchAll = promise]
        ELSE IF i < k /\ s[i].phase # "returning"
        THEN [s[i] EXCEPT !.overtaken = @ \/ promise.status = "fulfilled"]
        ELSE s[i] ]

NoOrder == [items |-> 0, total |-> 0]

\* a synchronous operation: its name and arguments, and whether its lookup
\* (getById for addToCart, items.find for the others) found something; for
\* the checkout button's handler, whether it built a CheckoutPage
Op(name, id, delta, hit) ==
    [op |-> name, id |-> id, delta |-> delta, hit |-> hit, settled |-> NoneSettled]

\* a continuation of fetchAll or of getProducts that settled its promise
OpSettle(name, st) ==
    [op |-> name, id |-> 0, delta |-> 0, hit |-> FALSE, settled |-> st]

Init ==
    /\ products = << >>
    /\ cells = << >>
    /\ arrays = << << >> >>
    /\ items = 1
    /\ view = 0
    /\ order = NoOrder
    /\ retain = {}
    /\ calls = << >>
    /\ fetched = FALSE
    /\ lastOp = Op("init", 0, 0, FALSE)

\* what the caller still holds of the array and the order returned earlier
HeldView == IF "view" \in retain THEN view ELSE 0
HeldOrder == IF "order" \in retain THEN order ELSE NoOrder

\* store repository h, view v and order o
Commit(h, v, o) ==
    \E g \in {Collect(h, v, o)} :
        /\ cells' = g.cells
        /\ arrays' = g.arrays
        /\ items' = g.items
        /\ view' = g.view
        /\ order' = g.order

\* every line of the cart is within the quantity bound of the model
WithinQty(h) == \A c \in Range(h.arrays[h.items]) : h.cells[c].quantity <= MaxQty

\* the cart has a line for product id
HasLine(h, id) == FindItem(h, id, 1) # 0

AddToCart(id) ==
    \E h \in {addToCart(products, Repo, id)} :
        /\ WithinQty(h)
        /\ Commit(h, HeldView, HeldOrder)
        /\ lastOp' = Op("addToCart", id, 0, getById(products, id) # Undefined)
        /\ UNCHANGED << products, retain, calls, fetched >>

RemoveFromCart(id) ==
    /\ Commit(removeFromCart(Repo, id), HeldView, HeldOrder)
    /\ lastOp' = Op("removeFromCart", id, 0, HasLine(Repo, id))
    /\ UNCHANGED << products, retain, calls, fetched >>

ChangeQuantity(id, delta) ==
    \E h \in {changeQuantity(Repo, id, delta)} :
        /\ WithinQty(h)
        /\ Commit(h, HeldView, HeldOrder)
        /\ lastOp' = Op("changeQuantity", id, delta, HasLine(Repo, id))
        /\ UNCHANGED << products, retain, calls, fetched >>

\* getCartItems(): the array of the repository is returned to the caller
GetCartItems ==
    /\ Commit(Repo, getItems(Repo), HeldOrder)
    /\ lastOp' = Op("getCartItems", 0, 0, FALSE)
    /\ UNCHANGED << products, retain, calls, fetched >>

Checkout ==
    \E r \in {checkout(Repo)} :
        /\ Commit(r.repo, HeldView, r.result)
        /\ lastOp' = Op("checkout", 0, 0, FALSE)
        /\ UNCHANGED << products, retain, calls, fetched >>

\* the checkout button is clicked. What the handler got is in order; a
\* caller that keeps what it is handed is the page itself, which keeps
\* items and total in the CheckoutPage it builds
\* (window.currentCheckoutInstance) and, when it builds none, still has the
\* page of the click before.
UiCheckout ==
    \E r \in {uiCheckout(Repo)} :
        /\ Commit(r.repo, HeldView, IF "order" \in retain /\ ~r.opened THEN order ELSE r.result)
        /\ lastOp' = Op("uiCheckout", 0, 0, r.opened)
        /\ UNCHANGED << products, retain, calls, fetched >>

\* getProducts() is called: fetchAll starts and suspends at await fetch(...)
GetProductsCall ==
    /\ Len(calls) < MaxInFlight
    /\ calls' = Append(calls, Call("fetching", 1))
    /\ Commit(Repo, HeldView, HeldOrder)
    /\ lastOp' = Op("getProducts", 0, 0, FALSE)
    /\ UNCHANGED << products, retain, fetched >>

\* fetch() rejects (network fault): the catch block runs and the promise of
\* fetchAll is rejected
FetchRejects(k) ==
    /\ calls[k].phase = "fetching"
    /\ \E r \in {fetchAllCatch(products, "NetworkError")} :
           /\ products' = r.products
           /\ lastOp' = OpSettle("fetchRejects", Settled(calls[k], r.promise, Pending))
           /\ calls' = StillInFlight(calls, k, r.promise)
           /\ fetched' = (fetched \/ r.promise.status = "fulfilled")
    /\ Commit(Repo, HeldView, HeldOrder)
    /\ UNCHANGED retain

\* fetch() resolves: fetchAll suspends again at await response.json()
FetchResolves(k) ==
    /\ calls[k].phase = "fetching"
    /\ calls' = [calls EXCEPT ![k].phase = "parsing"]
    /\ Commit(Repo, HeldView, HeldOrder)
    /\ lastOp' = Op("fetchResolves", 0, 0, FALSE)
    /\ UNCHANGED << products, retain, fetched >>

\* response.json() rejects (the body is not JSON): the catch block runs and
\* the promise of fetchAll is rejected
JsonRejects(k) ==
    /\ calls[k].phase = "parsing"
    /\ \E r \in {fetchAllCatch(products, "SyntaxError")} :
           /\ products' = r.products
           /\ lastOp' = OpSettle("jsonRejects", Settled(calls[k], r.promise, Pending))
           /\ calls' = StillInFlight(calls, k, r.promise)
           /\ fetched' = (fetched \/ r.promise.status = "fulfilled")
    /\ Commit(Repo, HeldView, HeldOrder)
    /\ UNCHANGED retain

\* a continuation that drops the data of a call a later call has overtaken
JsonResolves_DropsStale(k, data) ==
    /\ calls[k].phase = "parsing"
    /\ \E r \in {fetchAllData(products, data)} :
           /\ products' = IF calls[k].overtaken THEN products ELSE r.products
           /\ lastOp' = OpSettle("jsonResolves", Settled(calls[k], r.promise, Pending))
           /\ calls' = StillInFlight(calls, k, r.promise)
           /\ fetched' = (fetched \/ r.promise.status = "fulfilled")
    /\ Commit(Repo, HeldView, HeldOrder)
    /\ UNCHANGED retain

\* a continuation that also empties the cart when it replaces the catalog
JsonResolves_ResetsCart(k, data) ==
    /\ calls[k].phase = "parsing"
    /\ \E r \in {fetchAllData(products, data)} :
           /\ products' = r.products
           /\ lastOp' = OpSettle("jsonResolves", Settled(calls[k], r.promise, Pending))
           /\ calls' = StillInFlight(calls, k, r.promise)
           /\ fetched' = (fetched \/ r.promise.status = "fulfilled")
           /\ Commit(IF r.promise.status = "fulfilled" THEN clear(Repo) ELSE Repo,
                     HeldView, HeldOrder)
    /\ UNCHANGED retain

\* response.json() resolves to data: fetchAll runs to its end and settles
\* its promise
JsonResolves(k, data) ==
    /\ calls[k].phase = "parsing"
    /\ \E r \in {fetchAllData(products, data)} :
           /\ products' = r.products
           /\ lastOp' = OpSettle("jsonResolves", Settled(calls[k], r.promise, Pending))
           /\ calls' = StillInFlight(calls, k, r.promise)
           /\ fetched' = (fetched \/ r.promise.status = "fulfilled")
    /\ Commit(Repo, HeldView, HeldOrder)
    /\ UNCHANGED retain

\* getProducts() resumes from its await with the outcome of fetchAll and
\* settles its own promise with it: the call is over
GetProductsReturns(k) ==
    /\ calls[k].phase = "returning"
    /\ lastOp' = OpSettle("getProductsReturns",
                          Settled(calls[k], calls[k].fetchAll, getProducts(calls[k].fetchAll)))
    /\ calls' = Without(calls, k)
    /\ Commit(Repo, HeldView, HeldOrder)
    /\ UNCHANGED << products, retain, fetched >>

\* getProducts() called once no call is in flight
GetProductsAlone == calls = << >> /\ GetProductsCall

Next ==
    \/ \E id \in CallerIds : AddToCart(id)
    \/ \E id \in CallerIds : RemoveFromCart(id)
    \/ \E id \in CallerIds, delta \in Deltas : ChangeQuantity(id, delta)
    \/ GetCartItems
    \/ Checkout
    \/ UiCheckout
    \/ GetProductsAlone
    \/ \E k \in 1..Len(calls) : FetchRejects(k)
    \/ \E k \in 1..Len(calls) : FetchResolves(k)
    \/ \E k \in 1..Len(calls) : JsonRejects(k)
    \/ \E k \in 1..Len(calls), data \in JsonBodies : JsonResolves(k, data)
    \/ \E k \in 1..Len(calls) : GetProductsReturns(k)

\* The caller uses what an operation returns before it starts the next one,
\* and calls getProducts() again only when the earlier call is over.
Spec == Init /\ [][Next]_vars

\* ---- getProducts() calls that overlap ---------------------------------------
\* the deltas the "-" and "+" buttons of a cart line pass to changeQuantity
ButtonDeltas == {0 - 1, 1}

\* the id a caller passes while getProducts() calls overlap: one payload of
\* JsonBodies lists it, the other does not
OverlapIds == {1}

\* the operations with getProducts() called while earlier calls are in flight
NextOverlap ==
    \/ \E id \in OverlapIds : AddToCart(id)
    \/ \E id \in OverlapIds : RemoveFromCart(id)
    \/ \E id \in OverlapIds, delta \in ButtonDeltas : ChangeQuantity(id, delta)
    \/ GetCartItems
    \/ Checkout
    \/ UiCheckout
    \/ GetProductsCall
    \/ \E k \in 1..Len(calls) : FetchRejects(k)
    \/ \E k \in 1..Len(calls) : FetchResolves(k)
    \/ \E k \in 1..Len(calls) : JsonRejects(k)
    \/ \E k \in 1..Len(calls), data \in JsonBodies : JsonResolves(k, data)
    \/ \E k \in 1..Len(calls) : GetProductsReturns(k)

SpecOverlap == Init /\ [][NextOverlap]_vars

\* ---- a caller that keeps what it is handed ------------------------------
\* The state once the script has run to its end: the repositories, the use
\* case and the page are built, and the page's constructor has called
\* loadProducts(), whose getProducts() is suspended at await fetch(...).
\* The items and total a checkout returns from here on are kept while
\* further operations run.
InitHeld ==
    /\ products = << >>
    /\ cells = << >>
    /\ arrays = << << >> >>
    /\ items = 1
    /\ view = 0
    /\ order = NoOrder
    /\ retain = {"order"}
    /\ calls = << Call("fetching", 1) >>
    /\ fetched = FALSE
    /\ lastOp = Op("getProducts", 0, 0, FALSE)

\* the ids the buttons of the page carry: the page draws an "add" button
\* for each product a payload lists, and "-", "+" and "remove" buttons for
\* each line of the cart
ListedIds == {1, 2}

\* the operations while the items and total of the last checkout are kept:
\* by the page in its last CheckoutPage, or by a caller of the use case's
\* checkout() itself
NextOrder ==
    \/ \E id \in ListedIds : AddToCart(id)
    \/ \E id \in ListedIds : RemoveFromCart(id)
    \/ \E id \in ListedIds, delta \in ButtonDeltas : ChangeQuantity(id, delta)
    \/ Checkout
    \/ UiCheckout
    \/ GetProductsAlone
    \/ \E k \in 1..Len(calls) : FetchRejects(k)
    \/ \E k \in 1..Len(calls) : FetchResolves(k)
    \/ \E k \in 1..Len(calls) : JsonRejects(k)
    \/ \E k \in 1..Len(calls), data \in JsonBodies : JsonResolves(k, data)
    \/ \E k \in 1..Len(calls) : GetProductsReturns(k)

SpecOrder == InitHeld /\ [][NextOrder]_vars

\* The same state, for a caller that keeps the array the last getCartItems()
\* returned while further operations run.
InitView ==
    /\ products = << >>
    /\ cells = << >>
    /\ arrays = << << >> >>
    /\ items = 1
    /\ view = 0
    /\ order = NoOrder
    /\ retain = {"view"}
    /\ calls = << Call("fetching", 1) >>
    /\ fetched = FALSE
    /\ lastOp = Op("getProducts", 0, 0, FALSE)

\* the operations while the array of the last getCartItems() is kept by the
\* caller; the only fetchAll is the one the page's constructor started
NextView ==
    \/ \E id \in CallerIds : AddToCart(id)
    \/ \E id \in CallerIds : RemoveFromCart(id)
    \/ \E id \in CallerIds, delta \in ButtonDeltas : ChangeQuantity(id, delta)
    \/ GetCartItems
    \/ Checkout
    \/ UiCheckout
    \/ \E k \in 1..Len(calls) : FetchRejects(k)
    \/ \E k \in 1..Len(calls) : FetchResolves(k)
    \/ \E k \in 1..Len(calls) : JsonRejects(k)
    \/ \E k \in 1..Len(calls), data \in JsonBodies : JsonResolves(k, data)
    \/ \E k \in 1..Len(calls) : GetProductsReturns(k)

SpecView == InitView /\ [][NextView]_vars

\* ---- a remote source that lists three products ------------------------------
\* the operations of Next, one getProducts() at a time
NextLong ==
    \/ \E id \in CallerIds : AddToCart(id)
    \/ \E id \in CallerIds : RemoveFromCart(id)
    \/ \E id \in CallerIds, delta \in Deltas : ChangeQuantity(id, delta)
    \/ GetCartItems
    \/ Checkout
    \/ UiCheckout
    \/ GetProductsAlone
    \/ \E k \in 1..Len(calls) : FetchRejects(k)
    \/ \E k \in 1..Len(calls) : FetchResolves(k)
    \/ \E k \in 1..Len(calls) : JsonRejects(k)
    \/ \E k \in 1..Len(calls), data \in LongBodies : JsonResolves(k, data)
    \/ \E k \in 1..Len(calls) : GetProductsReturns(k)

SpecLong == Init /\ [][NextLong]_vars

\* ---- what the claims speak of ---------------------------------------------
\* the lines of the cart, in order, as { product, quantity } values
CartLines == Lines(Repo, items)

\* the lines of the array that the last checkout() returned, or, for the
\* page that keeps it, of the array its last CheckoutPage was built with
OrderLines == IF order.items = 0 THEN << >> ELSE Lines(Repo, order.items)

\* total() and itemCount() as the use case reports them
CartTotal == getTotal(Repo)
CartCount == getItemCount(Repo)

\* sum of f[i] over the indices in S
RECURSIVE SumOver(_, _)
SumOver(f, S) ==
    IF S = {} THEN 0
    ELSE LET i == CHOOSE x \in S : TRUE IN f[i] + SumOver(f, S \ {i})

\* sum of price x quantity, and of quantity, over a sequence of lines
SumOfLineTotals(L) == SumOver([ i \in 1..Len(L) |-> L[i].product.price * L[i].quantity ], 1..Len(L))
SumOfQuantities(L) == SumOver([ i \in 1..Len(L) |-> L[i].quantity ], 1..Len(L))

\* the positions of the lines of L for product id
PositionsOf(L, id) == { i \in 1..Len(L) : L[i].product.id = id }

\* the catalog snapshot lists product id
InCatalog(id) == \E i \in 1..Len(products) : products[i].id = id

\* C1: in every reachable state no two lines of the cart have the same
\* product id and every line has quantity >= 1.
C1_UniqueIdsPositiveQuantities ==
    /\ \A i, j \in 1..Len(CartLines) :
           i # j => CartLines[i].product.id # CartLines[j].product.id
    /\ \A i \in 1..Len(CartLines) : CartLines[i].quantity >= 1

\* a changeQuantity with a negative delta has acted on a cart that still
\* holds two lines, one of them at the largest quantity
C1_Witness ==
    /\ lastOp.op = "changeQuantity" /\ lastOp.hit /\ lastOp.delta < 0
    /\ Len(CartLines) = 2
    /\ \E i \in 1..2 : CartLines[i].quantity = MaxQty

\* C2: addToCart of a product the catalog resolves: when the cart has a line
\* for the id, that line's quantity grows by 1 and nothing else changes (same
\* number of lines, same positions, same products); when it has none, one
\* line of quantity 1 for the resolved product is appended at the end.
C2_AddItemStep ==
    \A id \in CallerIds :
        (lastOp' = Op("addToCart", id, 0, TRUE) /\ InCatalog(id)) =>
            IF PositionsOf(CartLines, id) # {}
            THEN \E i \in PositionsOf(CartLines, id) :
                    CartLines' = [CartLines EXCEPT ![i].quantity = @ + 1]
            ELSE CartLines' = Append(CartLines, [product |-> getById(products, id), quantity |-> 1])

C2_AddItemMergesOrAppends == [][C2_AddItemStep]_vars

\* addToCart has just acted on an id that already had a line, whose product
\* the catalog now lists at another price: one line for the id, quantity 2
C2_Witness ==
    /\ lastOp = Op("addToCart", 2, 0, TRUE)
    /\ \E i \in PositionsOf(CartLines, 2) :
          /\ CartLines[i].quantity = 2
          /\ CartLines[i].product # getById(products, 2)
    /\ Cardinality(PositionsOf(CartLines, 2)) = 1

\* C3: changeQuantity(id, delta) on a line of quantity q leaves that line at
\* q + delta when q + delta > 0 and leaves no line for the id when
\* q + delta <= 0; on an id without a line it leaves the id without a line,
\* whatever the sign of delta.
C3_AdjustStep ==
    \A id \in CallerIds, delta \in Deltas :
        (lastOp'.op = "changeQuantity" /\ lastOp'.id = id /\ lastOp'.delta = delta) =>
            IF PositionsOf(CartLines, id) # {}
            THEN \A i \in PositionsOf(CartLines, id) :
                    IF CartLines[i].quantity + delta > 0
                    THEN \E j \in PositionsOf(CartLines', id) :
                            CartLines'[j].quantity = CartLines[i].quantity + delta
                    ELSE PositionsOf(CartLines', id) = {}
            ELSE PositionsOf(CartLines', id) = {}

C3_AdjustDeletesAtZeroOrBelow == [][C3_AdjustStep]_vars

\* changeQuantity with the largest negative delta has just found a line and
\* left none for its id, next to another line that stayed
C3_Witness ==
    /\ lastOp.op = "changeQuantity" /\ lastOp.hit /\ lastOp.delta = 0 - MaxDelta
    /\ PositionsOf(CartLines, lastOp.id) = {}
    /\ CartLines # << >>

\* C4: in every reachable state total() is the sum of price x quantity over
\* the lines now in the cart and itemCount() is the sum of their quantities
\* (units, not lines); both are 0 when the cart is empty.
C4_TotalsMatchLines ==
    /\ CartTotal = SumOfLineTotals(CartLines)
    /\ CartCount = SumOfQuantities(CartLines)
    /\ CartLines = << >> => (CartTotal = 0 /\ CartCount = 0)

\* a cart of two lines holding three units at two prices, after a removal
\* or a decrement shrank it: total() and itemCount() report the lines as
\* they are now
C4_Witness ==
    /\ lastOp.op = "changeQuantity" /\ lastOp.hit /\ lastOp.delta < 0
    /\ Len(CartLines) = 2
    /\ CartCount = 3
    /\ CartTotal = 25

\* C5: checkout() returns the lines the cart held immediately before the
\* call (same lines, quantities and order) and the sum over those lines as
\* the total, and immediately after it the cart is empty: items() is empty,
\* total() is 0 and itemCount() is 0.
C5_CheckoutStep ==
    lastOp'.op = "checkout" =>
        /\ OrderLines' = CartLines
        /\ order'.total = SumOfLineTotals(CartLines)
        /\ CartLines' = << >>
        /\ CartTotal' = 0
        /\ CartCount' = 0

C5_CheckoutReturnsAndEmpties == [][C5_CheckoutStep]_vars

\* checkout() has just returned two lines, {id 1, quantity 2, price 10} and
\* {id 2, quantity 1, price 5}, with total 25, and the cart is empty
C5_Witness ==
    /\ lastOp.op = "checkout"
    /\ OrderLines = << [product |-> Product(1, 10), quantity |-> 2],
                       [product |-> Product(2, 5), quantity |-> 1] >>
    /\ order.total = 25
    /\ CartLines = << >>

\* a body the catalog can be built from: an array without null elements
Mappable(data) == data.isArray /\ \A i \in 1..Len(data.elems) : ~data.elems[i].isNull

\* the Products of a mappable body, record by record, in source order
SnapshotOf(data) ==
    [ i \in 1..Len(data.elems) |-> Product(data.elems[i].id, data.elems[i].price) ]

\* the step is the named continuation of call k (the name of the step is
\* read first, so that the continuation is only evaluated on its own steps)
StepFetchRejects(k) == lastOp'.op = "fetchRejects" /\ FetchRejects(k)
StepFetchResolves(k) == lastOp'.op = "fetchResolves" /\ FetchResolves(k)
StepJsonRejects(k) == lastOp'.op = "jsonRejects" /\ JsonRejects(k)
StepJsonResolves(k, data) == lastOp'.op = "jsonResolves" /\ JsonResolves(k, data)
StepGetProductsReturns(k) == lastOp'.op = "getProductsReturns" /\ GetProductsReturns(k)

\* the step is a fetchAll that fails: fetch() rejects, response.json()
\* rejects, or the parsed body cannot be mapped
FetchFailsStep ==
    \E k \in 1..Len(calls) :
        \/ StepFetchRejects(k)
        \/ StepJsonRejects(k)
        \/ \E data \in JsonBodies : ~Mappable(data) /\ StepJsonResolves(k, data)

\* C6: a fetchAll that fails leaves the catalog snapshot as it was, so that
\* getById answers every id as before, whether the snapshot was empty or not.
C6_FailedFetchStep ==
    FetchFailsStep =>
        /\ products' = products
        /\ \A id \in CallerIds : getById(products', id) = getById(products, id)

C6_FailedFetchKeepsCatalog == [][C6_FailedFetchStep]_vars

\* a fetchAll has just failed on a body it could not map, with a populated
\* catalog in place that still answers getById(2)
C6_Witness ==
    /\ lastOp.op = "jsonResolves"
    /\ lastOp.settled.fetchAll = Rejected("TypeError")
    /\ products # << >>
    /\ getById(products, 2) # Undefined

\* C7: when the remote retrieval fails, fetchAll() ends rejected (not
\* fulfilled with an empty or stale list) and starts no other retrieval;
\* getProducts() then resumes and ends rejected with the same error, the call
\* being over after exactly one remote retrieval; between the two, whatever
\* else runs, the call waits with the error it was rejected with.
C7_FailureStep ==
    /\ FetchFailsStep =>
           /\ lastOp'.settled.fetchAll.status = "rejected"
           /\ lastOp'.settled.fetchAll.error \in {"NetworkError", "SyntaxError", "TypeError"}
           /\ lastOp'.settled.requests = 1
           /\ Len(calls') = Len(calls)
           /\ \E j \in 1..Len(calls') :
                  /\ calls'[j].phase = "returning"
                  /\ calls'[j].fetchAll = lastOp'.settled.fetchAll
                  /\ calls'[j].requests = 1
    /\ \A k \in 1..Len(calls) :
           (calls[k].phase = "returning" /\ calls[k].fetchAll.status = "rejected") =>
               \/ k <= Len(calls') /\ calls'[k] = calls[k]
               \/ k > 1 /\ calls'[k - 1] = calls[k]
               \/ /\ StepGetProductsReturns(k)
                  /\ lastOp'.settled.getProducts = calls[k].fetchAll
                  /\ lastOp'.settled.requests = 1
                  /\ Len(calls') = Len(calls) - 1

C7_FailureSurfacesOnce == [][C7_FailureStep]_vars

\* getProducts() has just ended rejected with the network fault that had
\* rejected its fetchAll(), while the catalog held an earlier snapshot
C7_Witness ==
    /\ lastOp.op = "getProductsReturns"
    /\ lastOp.settled.fetchAll = Rejected("NetworkError")
    /\ lastOp.settled.getProducts = Rejected("NetworkError")
    /\ lastOp.settled.requests = 1
    /\ products # << >>
    /\ calls = << >>

\* C8: removeFromCart(id) and changeQuantity(id, delta), for any delta, on
\* an id without a line in the cart leave the cart's lines (products,
\* quantities, order), its total and its item count as they were.
C8_AbsentIdStep ==
    (/\ lastOp'.op \in {"removeFromCart", "changeQuantity"}
     /\ PositionsOf(CartLines, lastOp'.id) = {}) =>
        /\ CartLines' = CartLines
        /\ CartTotal' = CartTotal
        /\ CartCount' = CartCount

C8_AbsentIdLeavesCart == [][C8_AbsentIdStep]_vars

\* removeFromCart has just run for an id that had no line, on a cart that
\* holds two lines
C8_Witness ==
    /\ lastOp.op = "removeFromCart" /\ ~lastOp.hit
    /\ Len(CartLines) = 2
    /\ PositionsOf(CartLines, lastOp.id) = {}

\* C9: addToCart(id) for an id the catalog snapshot does not list leaves the
\* cart as it was; for an id it lists, the cart gains exactly one unit, held
\* by the one line for that id, and every other line stays as it was.
C9_AddToCartStep ==
    \A id \in CallerIds :
        (lastOp'.op = "addToCart" /\ lastOp'.id = id) =>
            IF InCatalog(id)
            THEN /\ CartCount' = CartCount + 1
                 /\ Cardinality(PositionsOf(CartLines', id)) = 1
                 /\ \A i \in 1..Len(CartLines) :
                        CartLines[i].product.id # id => CartLines'[i] = CartLines[i]
                 /\ Len(CartLines') \in {Len(CartLines), Len(CartLines) + 1}
            ELSE /\ CartLines' = CartLines
                 /\ CartTotal' = CartTotal
                 /\ CartCount' = CartCount

C9_AddToCartResolvesOrSkips == [][C9_AddToCartStep]_vars

\* addToCart has just run for an id the populated catalog does not list, on
\* a cart with a line in it
C9_Witness ==
    /\ lastOp.op = "addToCart" /\ ~lastOp.hit
    /\ products # << >>
    /\ ~InCatalog(lastOp.id)
    /\ CartLines # << >>

\* the snapshots the remote source can produce
FullSnapshots == { SnapshotOf(data) : data \in { d \in JsonBodies : Mappable(d) } }

\* C10: a fetchAll that succeeds sets the catalog in one step to exactly the
\* products of its response, in source order, with nothing of the earlier
\* snapshot; the catalog changes in no other step, so every operation finds
\* either the earlier snapshot whole or the new one whole.
C10_ReplaceStep ==
    /\ \A k \in 1..Len(calls), data \in JsonBodies :
           (Mappable(data) /\ StepJsonResolves(k, data)) =>
               /\ products' = SnapshotOf(data)
               /\ lastOp'.settled.fetchAll = Fulfilled(SnapshotOf(data))
    /\ products' # products =>
           /\ lastOp'.op = "jsonResolves"
           /\ lastOp'.settled.fetchAll.status = "fulfilled"
           /\ products' \in FullSnapshots

C10_CatalogReplacedWhole == [][C10_ReplaceStep]_vars

\* a fetchAll has just replaced a snapshot that listed product 1 (the cart
\* still holds it) by one that does not
C10_Witness ==
    /\ lastOp.op = "jsonResolves"
    /\ lastOp.settled.fetchAll = Fulfilled(<< Product(2, 7) >>)
    /\ products = << Product(2, 7) >>
    /\ PositionsOf(CartLines, 1) # {}

\* call k runs while it overlaps another call: one is still in flight, or
\* one that started after k has already replaced the catalog
Overlapping(k) == Len(calls) >= 2 \/ calls[k].overtaken

\* where each call is suspended, oldest first
Phases(s) == [ i \in 1..Len(s) |-> s[i].phase ]

\* C11: when fetchAll calls overlap, each runs on whatever the others do: a
\* continuation of one call leaves the others in flight where they were; a
\* fetchAll that succeeds sets the catalog to its own response, also when it
\* started first and a later call has replaced the catalog meanwhile (the
\* last to complete wins); one that fails leaves the catalog the other call
\* set; getProducts() returning changes the catalog no more.
C11_OverlapStep ==
    \A k \in 1..Len(calls) :
        Overlapping(k) =>
            /\ \A data \in JsonBodies :
                   (Mappable(data) /\ StepJsonResolves(k, data)) =>
                       /\ products' = SnapshotOf(data)
                       /\ Phases(calls') = [Phases(calls) EXCEPT ![k] = "returning"]
            /\ (\/ StepFetchRejects(k)
                \/ StepJsonRejects(k)
                \/ \E data \in JsonBodies : ~Mappable(data) /\ StepJsonResolves(k, data)) =>
                       /\ products' = products
                       /\ Phases(calls') = [Phases(calls) EXCEPT ![k] = "returning"]
            /\ StepFetchResolves(k) => Phases(calls') = [Phases(calls) EXCEPT ![k] = "parsing"]
            /\ StepGetProductsReturns(k) =>
                       /\ products' = products
                       /\ Phases(calls') = Phases(Without(calls, k))

C11_OverlappingFetchesLastWins == [][C11_OverlapStep]_vars

\* both calls are over: the one that started first completed last, after
\* the later call had replaced the catalog, and the catalog is what the
\* first call fetched
C11_Witness ==
    /\ lastOp.op = "getProductsReturns"
    /\ lastOp.settled.overtaken
    /\ lastOp.settled.getProducts = Fulfilled(<< Product(1, 10), Product(2, 5) >>)
    /\ products = << Product(1, 10), Product(2, 5) >>
    /\ calls = << >>

\* C12: as long as no fetchAll has been fulfilled (none was started, some
\* are in flight, or all have failed) the catalog is empty, getById finds no
\* id, and the cart is empty whatever addToCart calls were made.
C12_NothingBeforeFirstFetch ==
    ~fetched =>
        /\ products = << >>
        /\ \A id \in CallerIds : getById(products, id) = Undefined
        /\ CartLines = << >>
        /\ CartCount = 0

\* addToCart has just run without finding its product while a fetchAll is
\* in flight, its response received but not yet parsed, none having succeeded
C12_Witness ==
    /\ ~fetched
    /\ lastOp.op = "addToCart" /\ ~lastOp.hit
    /\ calls # << >>
    /\ \E i \in 1..Len(calls) : calls[i].phase = "parsing"
    /\ CartLines = << >>

\* the step hands out a new items and total to keep: a click on the
\* checkout button that builds a new CheckoutPage, or a checkout() called on
\* the use case
OpensPage == (lastOp'.op = "uiCheckout" /\ lastOp'.hit) \/ lastOp'.op = "checkout"

\* C13: the items and total that a checkout() returned stay as they were
\* returned: no later addToCart, removeFromCart, changeQuantity or fetchAll
\* step, and no later click on the checkout button with an empty cart,
\* changes the lines (products, prices, quantities, order) or the total
\* that is kept, and any further checkout() would leave the lines of the
\* kept array untouched.
C13_SnapshotStep ==
    order.items # 0 =>
        /\ Lines(checkout(Repo).repo, order.items) = OrderLines
        /\ ~OpensPage =>
               /\ OrderLines' = OrderLines
               /\ order'.total = order.total

C13_CheckoutSnapshotStays == [][C13_SnapshotStep]_vars

\* the page keeps a checkout of two lines worth 25; since then product 2
\* was added at price 5 and raised to quantity 2, and after that a fetchAll
\* replaced the catalog by one that sells product 2 at price 7
C13_Witness ==
    /\ lastOp.op = "jsonResolves"
    /\ OrderLines = << [product |-> Product(1, 10), quantity |-> 2],
                       [product |-> Product(2, 5), quantity |-> 1] >>
    /\ order.total = 25
    /\ CartLines = << [product |-> Product(2, 5), quantity |-> 2] >>
    /\ products = << Product(2, 7) >>

\* C14: checkout() drains the cart in one step: the total it returns is the
\* sum of price * quantity over the very lines it returns, every line that
\* was in the cart is in the returned list (nothing is cleared unseen), the
\* cart is empty afterwards, and nothing else (catalog, pending fetches)
\* moves in between.
C14_DrainStep ==
    lastOp'.op = "checkout" =>
        /\ order'.total = SumOfLineTotals(OrderLines')
        /\ Len(OrderLines') = Len(CartLines)
        /\ \A i \in 1..Len(CartLines) :
               \E j \in 1..Len(OrderLines') : OrderLines'[j] = CartLines[i]
        /\ CartLines' = << >>
        /\ products' = products
        /\ calls' = calls

C14_CheckoutDrainsAtomically == [][C14_DrainStep]_vars

\* checkout() has just returned lines bought from two different catalogs,
\* {id 1, price 10, quantity 1} and {id 2, price 7, quantity 2}, with total
\* 24, while a fetchAll is in flight; the cart is empty
C14_Witness ==
    /\ lastOp.op = "checkout"
    /\ OrderLines = << [product |-> Product(1, 10), quantity |-> 1],
                       [product |-> Product(2, 7), quantity |-> 2] >>
    /\ order.total = 24
    /\ calls # << >>
    /\ CartLines = << >>

\* the sequence L without its element at position p
DropAt(L, p) == [ i \in 1..(Len(L) - 1) |-> IF i < p THEN L[i] ELSE L[i + 1] ]

\* the step is a removeFromCart(id), or a changeQuantity(id, delta) that
\* brings the quantity to zero or below, on a cart whose line p is for id
Deletes(id, p) ==
    /\ lastOp'.id = id
    /\ p \in PositionsOf(CartLines, id)
    /\ \/ lastOp'.op = "removeFromCart"
       \/ lastOp'.op = "changeQuantity" /\ CartLines[p].quantity + lastOp'.delta <= 0

\* C15: a removeFromCart(id), and a changeQuantity(id, delta) that brings
\* the quantity to zero or below, on a cart that has a line for id deletes
\* exactly that line: every other line stays, with its product, its
\* quantity and its place relative to the others.
C15_DeleteStep ==
    \A id \in CallerIds, p \in 1..Len(CartLines) :
        Deletes(id, p) => CartLines' = DropAt(CartLines, p)

C15_DeletionKeepsOtherLines == [][C15_DeleteStep]_vars

\* removeFromCart(1) has just found its line in a cart of three lines and
\* the cart is left with the lines of products 3 and 2, in that order,
\* at the quantities 2 and 1 (three lines: two ids remain and the catalog
\* lists three)
C15_Witness ==
    /\ lastOp.op = "removeFromCart" /\ lastOp.hit /\ lastOp.id = 1
    /\ CartLines = << [product |-> Product(3, 7), quantity |-> 2],
                      [product |-> Product(2, 5), quantity |-> 1] >>

\* the lines of the array that the last getCartItems() returned
ViewLines == IF view = 0 THEN << >> ELSE Lines(Repo, view)

\* the step is an addToCart, a removeFromCart or a changeQuantity
CartOpStep == lastOp'.op \in {"addToCart", "removeFromCart", "changeQuantity"}

\* the step is an addToCart, or a changeQuantity that deletes no line
InPlaceStep ==
    \/ lastOp'.op = "addToCart"
    \/ /\ lastOp'.op = "changeQuantity"
       /\ \A p \in PositionsOf(CartLines, lastOp'.id) :
              CartLines[p].quantity + lastOp'.delta > 0

\* C16 as stated: an array obtained from getCartItems() that matches the
\* cart's lines still matches them after any later addToCart,
\* changeQuantity or removeFromCart.
C16_OriginalStep ==
    (view # 0 /\ ViewLines = CartLines /\ CartOpStep) => ViewLines' = CartLines'

C16_ViewAlwaysMatches == [][C16_OriginalStep]_vars

\* C16, amended: getCartItems() returns the repository's own array, and as
\* long as that array is still the repository's (no removeFromCart, no
\* deleting changeQuantity and no checkout since it was returned) an
\* addToCart or a changeQuantity that deletes no line leaves it the
\* repository's array, showing the cart's current lines.
C16_LiveStep ==
    (view # 0 /\ view = items /\ InPlaceStep) =>
        (view' = items' /\ ViewLines' = CartLines')

C16_ViewLiveUntilReplaced == [][C16_LiveStep]_vars

\* the caller holds the repository's array and an addToCart, run after the
\* array was handed out, has just left the cart with two lines, which the
\* held array shows
C16_Witness ==
    /\ view # 0 /\ view = items
    /\ lastOp.op = "addToCart" /\ lastOp.hit
    /\ Len(CartLines) = 2
    /\ ViewLines = CartLines

\* the step is a step of a getProducts() call: the start of its fetchAll,
\* one of the continuations of fetchAll, or the return of getProducts()
FetchAllStep ==
    lastOp'.op \in {"getProducts", "fetchResolves", "fetchRejects",
                    "jsonRejects", "jsonResolves", "getProductsReturns"}

\* C17: no step of a fetchAll changes the cart: every line keeps its
\* position, its quantity and its Product (price included), and total() and
\* itemCount() stay, whatever the new catalog lists; and an addToCart that
\* finds a line for its id leaves that line's Product and price as they
\* were, so total() grows by the line's own price.
C17_CartApartStep ==
    /\ FetchAllStep =>
           /\ CartLines' = CartLines
           /\ CartTotal' = CartTotal
           /\ CartCount' = CartCount
    /\ \A id \in CallerIds : \A p \in PositionsOf(CartLines, id) :
           lastOp' = Op("addToCart", id, 0, TRUE) =>
               /\ CartLines'[p].product = CartLines[p].product
               /\ CartTotal' = CartTotal + CartLines[p].product.price

C17_FetchLeavesCartAlone == [][C17_CartApartStep]_vars

\* a fetchAll has just replaced the catalog by one that omits product 1 and
\* sells product 2 at 7; the cart still holds product 1 at 10 and product 2
\* at 5, quantity 2, total 20
C17_Witness ==
    /\ lastOp.op = "jsonResolves"
    /\ lastOp.settled.fetchAll = Fulfilled(<< Product(2, 7) >>)
    /\ products = << Product(2, 7) >>
    /\ CartLines = << [product |-> Product(1, 10), quantity |-> 1],
                      [product |-> Product(2, 5), quantity |-> 2] >>
    /\ CartTotal = 20

\* the cart repository after addToCart(id) followed by changeQuantity(id, -1)
AddThenTakeBack(id) == changeQuantity(addToCart(products, Repo, id), id, 0 - 1)

\* C18: from any reachable state, for an id the catalog lists, addToCart(id)
\* followed by changeQuantity(id, -1) gives back the cart it started from:
\* the same lines in the same order with the same products and quantities,
\* the same total() and itemCount(), whether the id had a line or not.
C18_AddThenDecrementRestores ==
    \A id \in CallerIds :
        InCatalog(id) =>
            /\ Lines(AddThenTakeBack(id), AddThenTakeBack(id).items) = CartLines
            /\ getTotal(AddThenTakeBack(id)) = CartTotal
            /\ getItemCount(AddThenTakeBack(id)) = CartCount

\* changeQuantity(1, -1) has just deleted the line of product 1, which was
\* at quantity 1 as addToCart leaves a new line, the catalog lists product
\* 1, and the cart is the line of product 2 alone
C18_Witness ==
    /\ lastOp = Op("changeQuantity", 1, 0 - 1, TRUE)
    /\ InCatalog(1)
    /\ PositionsOf(CartLines, 1) = {}
    /\ CartLines = << [product |-> Product(2, 5), quantity |-> 2] >>

\* the operations that run the use case's checkout()
CheckoutOps == {"checkout", "uiCheckout"}

\* C19: a checkout() on an empty cart returns an array without lines and
\* total 0 and leaves the cart empty; a checkout() that follows another
\* checkout() directly returns no lines and total 0; and the checkout
\* button's handler builds a CheckoutPage exactly when the items it got have
\* at least one line, never for an empty snapshot.
C19_EmptyCheckoutStep ==
    /\ (lastOp'.op \in CheckoutOps /\ CartLines = << >>) =>
           /\ order'.items # 0
           /\ OrderLines' = << >>
           /\ order'.total = 0
           /\ CartLines' = << >>
    /\ (lastOp.op \in CheckoutOps /\ lastOp'.op \in CheckoutOps) =>
           /\ OrderLines' = << >>
           /\ order'.total = 0
    /\ lastOp'.op = "uiCheckout" => (lastOp'.hit <=> Len(OrderLines') >= 1)

C19_EmptyCheckoutOpensNoPage == [][C19_EmptyCheckoutStep]_vars

\* the checkout button has just been clicked on an empty cart, with a catalog
\* loaded: the handler got an array without lines and total 0 and built no
\* CheckoutPage, and the cart is empty
C19_Witness ==
    /\ lastOp = Op("uiCheckout", 0, 0, FALSE)
    /\ products # << >>
    /\ order.items # 0
    /\ OrderLines = << >>
    /\ order.total = 0
    /\ CartLines = << >>

====
